---- MODULE Spec2Model ----
(***************************************************************************)
(* Model of calmmap's segment store, adjacency builder, path finder and    *)
(* discovery pipeline (src/main.go).                                       *)
(*                                                                         *)
(* Strings are sequences of characters over a small alphabet so that       *)
(* upper() and quote stripping are real conversions.  Points are           *)
(* positions on a line measured in half metres, so that two different      *)
(* points can still be closer than the 1.0 m threshold of isClose.         *)
(* An error value is a string; "nil" is Go's nil error.                    *)
(***************************************************************************)
EXTENDS Integers, Sequences, FiniteSets, TLC

VARIABLES
    input,          \* the segments read from the source geometry, to be loaded
    segments,       \* rows of table segments (id is the primary key)
    segment_links,  \* rows of table segment_links, in insertion order
    loadResult,     \* what loadSegments returned ("not called" before)
    pc,             \* position of handle/handleAttempt for the request
    req,            \* the request being handled
    att,            \* requestAttempt built by handleAttempt
    invoked,        \* stage handlers invoked so far for the request
    discovered,     \* stage discovery functions run (not overridden)
    routeCall,      \* the last direct call of sqliteStore.route
    search          \* a call of sqliteStore.route in progress: its queue and position

vars == <<input, segments, segment_links, loadResult, pc, req, att, invoked,
          discovered, routeCall, search>>

----------------------------------------------------------------------------
(* Bounds *)

MaxSegs == 3
MaxCoord == 2
LoadMaxSegs == 2

----------------------------------------------------------------------------
(* Sequence helpers *)

Range(s) == {s[i] : i \in DOMAIN s}

RECURSIVE SeqOfSet(_)
\* the elements of a set of integers as an ascending sequence
SeqOfSet(S) ==
    IF S = {} THEN <<>>
    ELSE LET m == CHOOSE x \in S : \A y \in S : x <= y
         IN <<m>> \o SeqOfSet(S \ {m})

RECURSIVE Concat(_)
Concat(ss) == IF ss = <<>> THEN <<>> ELSE Head(ss) \o Concat(Tail(ss))

Perms(S) == {p \in [1..Cardinality(S) -> S] : \A i, j \in DOMAIN p : p[i] = p[j] => i = j}

\* func contains(x []int, y int) bool
contains(x, y) == \E i \in DOMAIN x : x[i] = y

----------------------------------------------------------------------------
(* Strings *)

Quote == "'"

\* sqlite's upper(): ASCII letters to upper case, everything else unchanged
UpperChar(c) ==
    CASE c = "a" -> "A"
      [] c = "b" -> "B"
      [] c = "c" -> "C"
      [] c = "t" -> "T"
      [] c = "x" -> "X"
      [] OTHER -> c

upper(s) == [i \in DOMAIN s |-> UpperChar(s[i])]

\* strings.ReplaceAll(s, "'", "")
StripQuotes(s) == SelectSeq(s, LAMBDA c : c # Quote)

----------------------------------------------------------------------------
(* Geometry *)

CloseUnits == 2

\* geo.Distance on a line, in half metres
Distance(a, b) == IF a >= b THEN a - b ELSE b - a

isClose(a, b) == Distance(a, b) < CloseUnits

----------------------------------------------------------------------------
(* sqliteStore.filterSegments *)

NoFilter == [ids |-> <<>>, fullNames |-> <<>>, routeIDs |-> <<>>, endStreets |-> <<>>]

FilterMatches(seg, filter) ==
    /\ Len(filter.ids) > 0 => \E i \in DOMAIN filter.ids : seg.id = filter.ids[i]
    /\ Len(filter.fullNames) > 0 =>
          \E i \in DOMAIN filter.fullNames : seg.name = upper(filter.fullNames[i])
    /\ Len(filter.routeIDs) > 0 =>
          \E i \in DOMAIN filter.routeIDs : seg.routeID = filter.routeIDs[i]
    /\ Len(filter.endStreets) > 0 =>
          \E i \in DOMAIN filter.endStreets :
              upper(filter.endStreets[i]) \in {seg.from, seg.to}

SegByID(rows, id) == CHOOSE seg \in rows : seg.id = id

\* rows come back in rowid order, and id is the rowid (integer primary key)
filterSegmentsOn(rows, filter) ==
    LET hit == {seg \in rows : FilterMatches(seg, filter)}
        ids == SeqOfSet({seg.id : seg \in hit})
    IN [i \in DOMAIN ids |-> SegByID(hit, ids[i])]

filterSegments(filter) == filterSegmentsOn(segments, filter)

----------------------------------------------------------------------------
(* sqliteStore.loadSegments *)

KnownPairs ==
    {<<"BOTH", "BOTH">>, <<"BOTH", "FOTD">>, <<"BOTH", "FDTO">>,
     <<"FOTD", "FOTD">>, <<"FOTD", "BOTH">>, <<"FDTO", "BOTH">>}

\* PairMatches with the one-way chain compared at the wrong end of cur
PairMatchesWrongEnd(cur, next) ==
    LET d == <<cur.direction, next.direction>>
    IN CASE d = <<"BOTH", "BOTH">> ->
              \/ isClose(cur.firstPoint, next.firstPoint)
              \/ isClose(cur.firstPoint, next.lastPoint)
              \/ isClose(cur.lastPoint, next.firstPoint)
              \/ isClose(cur.lastPoint, next.lastPoint)
         [] d = <<"BOTH", "FOTD">> ->
              \/ isClose(next.firstPoint, cur.firstPoint)
              \/ isClose(next.firstPoint, cur.lastPoint)
         [] d = <<"FOTD", "FOTD">> -> isClose(next.firstPoint, cur.firstPoint)
         [] d = <<"FOTD", "BOTH">> ->
              \/ isClose(cur.lastPoint, next.firstPoint)
              \/ isClose(cur.lastPoint, next.lastPoint)
         [] OTHER -> FALSE

\* PairMatches with the case of a one-way segment followed by a two-way
\* one left empty
PairMatchesNoExit(cur, next) ==
    LET d == <<cur.direction, next.direction>>
    IN CASE d = <<"BOTH", "BOTH">> ->
              \/ isClose(cur.firstPoint, next.firstPoint)
              \/ isClose(cur.firstPoint, next.lastPoint)
              \/ isClose(cur.lastPoint, next.firstPoint)
              \/ isClose(cur.lastPoint, next.lastPoint)
         [] d = <<"BOTH", "FOTD">> ->
              \/ isClose(next.firstPoint, cur.firstPoint)
              \/ isClose(next.firstPoint, cur.lastPoint)
         [] d = <<"FOTD", "FOTD">> -> isClose(next.firstPoint, cur.lastPoint)
         [] OTHER -> FALSE

\* one case of the switch in matches: does next follow cur
PairMatches(cur, next) ==
    LET d == <<cur.direction, next.direction>>
    IN CASE d = <<"BOTH", "BOTH">> ->
              \/ isClose(cur.firstPoint, next.firstPoint)
              \/ isClose(cur.firstPoint, next.lastPoint)
              \/ isClose(cur.lastPoint, next.firstPoint)
              \/ isClose(cur.lastPoint, next.lastPoint)
         [] d = <<"BOTH", "FOTD">> ->
              \/ isClose(next.firstPoint, cur.firstPoint)
              \/ isClose(next.firstPoint, cur.lastPoint)
         [] d = <<"BOTH", "FDTO">> -> FALSE
         [] d = <<"FOTD", "FOTD">> -> isClose(next.firstPoint, cur.lastPoint)
         [] d = <<"FOTD", "BOTH">> ->
              \/ isClose(cur.lastPoint, next.firstPoint)
              \/ isClose(cur.lastPoint, next.lastPoint)
         [] d = <<"FDTO", "BOTH">> -> FALSE
         [] OTHER -> FALSE

\* matches with a default case that skips the pair instead of failing
matchesSkipsUnknown(segs, cur) ==
    [out |-> SelectSeq(segs, LAMBDA next : cur.id # next.id /\ PairMatches(cur, next)),
     err |-> "nil"]

\* the closure matches(segs, cur): the segments of segs that follow cur, or
\* the error of the default case
matches(segs, cur) ==
    IF \E i \in DOMAIN segs :
          /\ cur.id # segs[i].id
          /\ <<cur.direction, segs[i].direction>> \notin KnownPairs
    THEN [out |-> <<>>, err |-> "unknown direction pair"]
    ELSE [out |-> SelectSeq(segs, LAMBDA next : cur.id # next.id /\ PairMatches(cur, next)),
          err |-> "nil"]

\* routeSegmentsOf without the grouping by route
routeSegmentsOfAnyRoute(batch, routeID) == batch

\* routeSegments[routeID]: the batch's segments of a route, in batch order
routeSegmentsOf(batch, routeID) == SelectSeq(batch, LAMBDA seg : seg.routeID = routeID)

BatchRoutes(batch) == {batch[i].routeID : i \in DOMAIN batch}

\* the rows the inner loops insert for one route
RouteLinkRows(routeSegs) ==
    Concat([i \in DOMAIN routeSegs |->
        LET seg == routeSegs[i]
            nextSegs == matches(routeSegs, seg).out
        IN [j \in DOMAIN nextSegs |->
               [id |-> seg.id, route_id |-> seg.routeID, next_id |-> nextSegs[j].id]]])

\* some matches call of the second transaction fails
LinksFail(batch) ==
    \E r \in BatchRoutes(batch) :
        LET routeSegs == routeSegmentsOf(batch, r)
        IN \E i \in DOMAIN routeSegs : matches(routeSegs, routeSegs[i]).err # "nil"

\* an insert of the first transaction violates the primary key
InsertFails(rows, batch) ==
    \/ \E i \in DOMAIN batch : \E seg \in rows : seg.id = batch[i].id
    \/ \E i, j \in DOMAIN batch : i # j /\ batch[i].id = batch[j].id

\* The first transaction inserts the segments and commits; the second one
\* inserts the links of every route (Go ranges over the routeSegments map in
\* an unspecified order) and commits unless some matches call failed.  The
\* index created at the end changes no row.  builddb loads once, into the
\* store it has just created.
loadSegments(batch) ==
    /\ loadResult = "not called"
    /\ batch = input
    /\ IF InsertFails(segments, batch)
       THEN /\ loadResult' = "UNIQUE constraint failed"
            /\ UNCHANGED <<segments, segment_links>>
       ELSE /\ segments' = segments \cup Range(batch)
            /\ IF LinksFail(batch)
               THEN /\ loadResult' = "unknown direction pair"
                    /\ UNCHANGED segment_links
               ELSE /\ loadResult' = "nil"
                    /\ \E order \in Perms(BatchRoutes(batch)) :
                          segment_links' = segment_links \o
                              Concat([k \in DOMAIN order |->
                                  RouteLinkRows(routeSegmentsOf(batch, order[k]))])
    /\ UNCHANGED <<input, pc, req, att, invoked, discovered, routeCall, search>>

----------------------------------------------------------------------------
(* sqliteStore.route *)

\* select route_id from segments where id=?  (no row: the comparison with
\* NULL selects no link)
LinkRowsOf(rows, links, id) ==
    IF \E seg \in rows : seg.id = id
    THEN SelectSeq(links, LAMBDA l : l.route_id = SegByID(rows, id).routeID)
    ELSE <<>>

\* graph as the code builds it: the first from segment and every id or
\* next_id of a selected link is a key
GraphNodes(linkRows, fromID) ==
    {fromID} \cup {linkRows[i].id : i \in DOMAIN linkRows}
             \cup {linkRows[i].next_id : i \in DOMAIN linkRows}

\* graph[id]: the next ids in row order
GraphNext(linkRows, id) ==
    LET mine == SelectSeq(linkRows, LAMBDA l : l.id = id)
    IN [i \in DOMAIN mine |-> mine[i].next_id]

RECURSIVE bfsNewestFirst(_, _, _)
\* bfs with the new candidate paths put at the front of the queue
bfsNewestFirst(q, linkRows, toIDs) ==
    IF q = <<>> THEN <<>>
    ELSE LET p == Head(q)
             lid == p[Len(p)]
             nexts == GraphNext(linkRows, lid)
             fresh == SelectSeq(nexts, LAMBDA nid : ~contains(p, nid))
         IN IF contains(toIDs, lid) THEN p
            ELSE bfsNewestFirst([i \in DOMAIN fresh |-> Append(p, fresh[i])] \o Tail(q),
                                linkRows, toIDs)

RECURSIVE bfsGoalOnExtend(_, _, _)
\* bfs that looks for a to segment among the continuations of a candidate
\* path and never tests the seed itself
bfsGoalOnExtend(q, linkRows, toIDs) ==
    IF q = <<>> THEN <<>>
    ELSE LET p == Head(q)
             lid == p[Len(p)]
             nexts == GraphNext(linkRows, lid)
             fresh == SelectSeq(nexts, LAMBDA nid : ~contains(p, nid))
             hits == SelectSeq(fresh, LAMBDA nid : contains(toIDs, nid))
         IN IF hits # <<>> THEN Append(p, hits[1])
            ELSE bfsGoalOnExtend(Tail(q) \o [i \in DOMAIN fresh |-> Append(p, fresh[i])],
                                 linkRows, toIDs)

RECURSIVE bfs(_, _, _)
\* the loop over the queue q of candidate paths; <<>> is the nil path
bfs(q, linkRows, toIDs) ==
    IF q = <<>> THEN <<>>
    ELSE LET p == Head(q)
             lid == p[Len(p)]
             nexts == GraphNext(linkRows, lid)
             fresh == SelectSeq(nexts, LAMBDA nid : ~contains(p, nid))
         IN IF contains(toIDs, lid) THEN p
            ELSE bfs(Tail(q) \o [i \in DOMAIN fresh |-> Append(p, fresh[i])],
                     linkRows, toIDs)

routeOn(rows, links, fromSegments, toSegments) ==
    IF Len(fromSegments) = 0 \/ Len(toSegments) = 0
    THEN [segs |-> <<>>, err |-> "empty fromSegments or empty toSegments"]
    ELSE LET fromID == fromSegments[1].id
             linkRows == LinkRowsOf(rows, links, fromID)
             nodes == GraphNodes(linkRows, fromID)
             toIDs == [i \in DOMAIN toSegments |-> toSegments[i].id]
             path == bfs(<<(<<fromID>>)>>, linkRows, toIDs)
         IN IF \E i \in DOMAIN toSegments : toSegments[i].id \notin nodes
            THEN [segs |-> <<>>, err |-> "to segment not found in route graph"]
            ELSE IF path = <<>>
            THEN [segs |-> <<>>, err |-> "could not find path"]
            ELSE [segs |-> [i \in DOMAIN path |-> SegByID(rows, path[i])],
                  err |-> "nil"]

route(fromSegments, toSegments) ==
    routeOn(segments, segment_links, fromSegments, toSegments)

----------------------------------------------------------------------------
(* Discovery stages.  preq is [req, startSegments, endSegments]. *)

\* startDiscovery without the check of the route ids
startDiscoveryAnyRoute(preq) ==
    LET filter == [NoFilter EXCEPT
                     !.fullNames = <<StripQuotes(preq.req.streetName)>>,
                     !.endStreets = IF preq.req.from # <<>>
                                    THEN <<StripQuotes(preq.req.from)>>
                                    ELSE <<>>]
    IN [segs |-> filterSegments(filter), err |-> "nil"]

startDiscovery(preq) ==
    LET filter == [NoFilter EXCEPT
                     !.fullNames = <<StripQuotes(preq.req.streetName)>>,
                     !.endStreets = IF preq.req.from # <<>>
                                    THEN <<StripQuotes(preq.req.from)>>
                                    ELSE <<>>]
        segs == filterSegments(filter)
        routeIDs == {segs[i].routeID : i \in DOMAIN segs}
    IN IF Cardinality(routeIDs) > 1
       THEN [segs |-> <<>>, err |-> "discovered segments with different route IDs"]
       ELSE [segs |-> segs, err |-> "nil"]

\* endDiscovery without the filter on the route of the first start segment
endDiscoveryAnyRoute(preq) ==
    LET filter == [NoFilter EXCEPT
                     !.endStreets = IF preq.req.to # <<>>
                                    THEN <<StripQuotes(preq.req.to)>>
                                    ELSE <<>>]
    IN [segs |-> filterSegments(filter), err |-> "nil"]

endDiscovery(preq) ==
    LET filter == [NoFilter EXCEPT
                     !.routeIDs = <<preq.startSegments[1].routeID>>,
                     !.endStreets = IF preq.req.to # <<>>
                                    THEN <<StripQuotes(preq.req.to)>>
                                    ELSE <<>>]
    IN [segs |-> filterSegments(filter), err |-> "nil"]

\* startIDs := make([]int, len(startSegments)) followed by appends: the
\* slice starts with len(startSegments) zeroes
startIDsOf(startSegments) ==
    [i \in DOMAIN startSegments |-> 0] \o
    [i \in DOMAIN startSegments |-> startSegments[i].id]

RECURSIVE trimStart(_, _)
\* for len(route) > 2 && contains(startIDs, route[1].id) { route = route[1:] }
trimStart(rt, startIDs) ==
    IF Len(rt) > 2 /\ contains(startIDs, rt[2].id)
    THEN trimStart(Tail(rt), startIDs)
    ELSE rt

RECURSIVE longestKeepsFirst(_, _, _)
\* longest without the replacement of the path by a longer one
longestKeepsFirst(seed, ends, path) ==
    IF ends = <<>> THEN [segs |-> path, err |-> "nil"]
    ELSE LET c == route(<<seed>>, <<Head(ends)>>)
         IN IF c.err # "nil" THEN [segs |-> <<>>, err |-> c.err]
            ELSE longestKeepsFirst(seed, Tail(ends), path)

RECURSIVE longestSkipsUnreachable(_, _, _)
\* longest with the end candidates skipped for which the search fails
longestSkipsUnreachable(seed, ends, path) ==
    IF ends = <<>> THEN [segs |-> path, err |-> "nil"]
    ELSE LET c == route(<<seed>>, <<Head(ends)>>)
         IN IF c.err # "nil" THEN longestSkipsUnreachable(seed, Tail(ends), path)
            ELSE longestSkipsUnreachable(seed, Tail(ends),
                     IF Len(c.segs) > Len(path) THEN c.segs ELSE path)

RECURSIVE longest(_, _, _)
\* the loop over preq.endSegments from index i on; path is the longest so far
longest(seed, ends, path) ==
    IF ends = <<>> THEN [segs |-> path, err |-> "nil"]
    ELSE LET c == route(<<seed>>, <<Head(ends)>>)
         IN IF c.err # "nil" THEN [segs |-> <<>>, err |-> c.err]
            ELSE longest(seed, Tail(ends),
                         IF Len(c.segs) > Len(path) THEN c.segs ELSE path)

\* routeDiscovery without the shortcut for entire streets
routeDiscoveryAlwaysSearches(preq) ==
    LET found == route(preq.startSegments, preq.endSegments)
        trimmed == IF preq.req.from # <<>>
                   THEN trimStart(found.segs, startIDsOf(preq.startSegments))
                   ELSE found.segs
    IN IF found.err # "nil" THEN [segs |-> <<>>, err |-> found.err]
       ELSE IF preq.req.to = <<>> \/ preq.req.to = preq.req.from
       THEN longest(trimmed[1], preq.endSegments, trimmed)
       ELSE [segs |-> trimmed, err |-> "nil"]

routeDiscovery(preq) ==
    IF preq.req.from = <<>> /\ preq.req.to = <<>>
    THEN [segs |-> filterSegments([NoFilter EXCEPT
                       !.routeIDs = <<preq.startSegments[1].routeID>>]),
          err |-> "nil"]
    ELSE LET found == route(preq.startSegments, preq.endSegments)
             trimmed == IF preq.req.from # <<>>
                        THEN trimStart(found.segs, startIDsOf(preq.startSegments))
                        ELSE found.segs
         IN IF found.err # "nil" THEN [segs |-> <<>>, err |-> found.err]
            ELSE IF preq.req.to = <<>> \/ preq.req.to = preq.req.from
            THEN longest(trimmed[1], preq.endSegments, trimmed)
            ELSE [segs |-> trimmed, err |-> "nil"]

\* An override is the file overrides/<rank>.<stage> as the handler finds it:
\* absent, unreadable as integers, or a list of ids.
Absent == [kind |-> "absent", ids |-> <<>>]
Malformed == [kind |-> "malformed", ids |-> <<>>]
IdList(ids) == [kind |-> "ids", ids |-> ids]

discover(when, preq) ==
    CASE when = "start" -> startDiscovery(preq)
      [] when = "end" -> endDiscovery(preq)
      [] when = "route" -> routeDiscovery(preq)

overrideDiscovery(when, ov, preq) ==
    CASE ov.kind = "absent" -> discover(when, preq)
      [] ov.kind = "malformed" -> [segs |-> <<>>, err |-> "invalid syntax"]
      [] ov.kind = "ids" ->
            [segs |-> filterSegments([NoFilter EXCEPT !.ids = ov.ids]), err |-> "nil"]

----------------------------------------------------------------------------
(* requestHandler.handleAttempt and handle *)

NoAttempt ==
    [startSegments |-> <<>>, startErr |-> "nil",
     endSegments |-> <<>>, endErr |-> "nil",
     routeSegments |-> <<>>, routeErr |-> "nil"]

NoRequest == [streetName |-> <<>>, from |-> <<>>, to |-> <<>>]

preqOf == [req |-> req, startSegments |-> att.startSegments,
           endSegments |-> att.endSegments]

\* a caller builds the handler for a request and calls handle; the handlers
\* only read the store, so one request per behaviour shows what every
\* request does
newRequest(r) ==
    /\ loadResult # "not called"
    /\ pc = "idle"
    /\ pc' = "start"
    /\ req' = r
    /\ att' = NoAttempt
    /\ invoked' = {}
    /\ discovered' = {}
    /\ UNCHANGED <<input, segments, segment_links, loadResult, routeCall, search>>

Called(when, ov) ==
    /\ invoked' = invoked \cup {when}
    /\ discovered' = IF ov.kind = "absent" THEN discovered \cup {when} ELSE discovered

startStage(ov) ==
    /\ pc = "start"
    /\ LET got == overrideDiscovery("start", ov, preqOf)
       IN IF Len(got.segs) = 0
          THEN /\ att' = [att EXCEPT !.startSegments = got.segs,
                                     !.startErr = "no start segments found",
                                     !.endErr = "no start segments found",
                                     !.routeErr = "no start segments found"]
               /\ pc' = "done"
          ELSE /\ att' = [att EXCEPT !.startSegments = got.segs,
                                     !.startErr = got.err]
               /\ pc' = "end"
    /\ Called("start", ov)
    /\ UNCHANGED <<input, segments, segment_links, loadResult, req, routeCall, search>>

\* endStage without the check for an empty result
endStageUnchecked(ov) ==
    /\ pc = "end"
    /\ LET got == overrideDiscovery("end", ov, preqOf)
       IN att' = [att EXCEPT !.endSegments = got.segs, !.endErr = got.err]
    /\ pc' = "route"
    /\ Called("end", ov)
    /\ UNCHANGED <<input, segments, segment_links, loadResult, req, routeCall, search>>

endStage(ov) ==
    /\ pc = "end"
    /\ LET got == overrideDiscovery("end", ov, preqOf)
       IN IF Len(got.segs) = 0
          THEN /\ att' = [att EXCEPT !.endSegments = got.segs,
                                     !.endErr = "no end segments found",
                                     !.routeErr = "no end segments found"]
               /\ pc' = "done"
          ELSE /\ att' = [att EXCEPT !.endSegments = got.segs,
                                     !.endErr = got.err]
               /\ pc' = "route"
    /\ Called("end", ov)
    /\ UNCHANGED <<input, segments, segment_links, loadResult, req, routeCall, search>>

routeStage(ov) ==
    /\ pc = "route"
    /\ LET got == overrideDiscovery("route", ov, preqOf)
       IN att' = [att EXCEPT !.routeSegments = got.segs, !.routeErr = got.err]
    /\ pc' = "done"
    /\ Called("route", ov)
    /\ UNCHANGED <<input, segments, segment_links, loadResult, req, routeCall, search>>

\* what handle returns for a finished attempt
handleOf(a) ==
    LET errs == SelectSeq(<<a.startErr, a.endErr, a.routeErr>>, LAMBDA e : e # "nil")
    IN IF errs # <<>>
       THEN [startSegments |-> <<>>, endSegments |-> <<>>, routeSegments |-> <<>>,
             err |-> Head(errs)]
       ELSE [startSegments |-> a.startSegments, endSegments |-> a.endSegments,
             routeSegments |-> a.routeSegments, err |-> "nil"]

handle == handleOf(att)

NoCall == [from |-> <<>>, to |-> <<>>, segs |-> <<>>, err |-> "not called"]

NoSearch == [from |-> <<>>, to |-> <<>>, q |-> <<>>, path |-> <<>>, iterations |-> 0,
             segs |-> <<>>, err |-> "not called"]

\* a direct call of the store's path finder; route only reads the store, so
\* one call per behaviour shows what every call does
callRoute(fromSegments, toSegments) ==
    /\ loadResult # "not called"
    /\ routeCall.err = "not called"
    /\ LET got == route(fromSegments, toSegments)
       IN routeCall' = [from |-> fromSegments, to |-> toSegments,
                        segs |-> got.segs, err |-> got.err]
    /\ UNCHANGED <<input, segments, segment_links, loadResult, pc, req, att, invoked,
                   discovered, search>>

----------------------------------------------------------------------------
(* sqliteStore.route, one iteration of its loop at a time *)

\* the continuations of candidate path p, revisits included
nextOfAllowsRevisit(linkRows, p) == GraphNext(linkRows, p[Len(p)])

\* the continuations of candidate path p: for _, nid := range graph[lid]
\* with the nodes already in p skipped
nextOf(linkRows, p) ==
    SelectSeq(GraphNext(linkRows, p[Len(p)]), LAMBDA nid : ~contains(p, nid))

\* route up to the loop: the checks of the arguments and the first queue
beginRoute(fromSegments, toSegments) ==
    /\ loadResult # "not called"
    /\ search.err = "not called"
    /\ LET started == [NoSearch EXCEPT !.from = fromSegments, !.to = toSegments]
       IN IF Len(fromSegments) = 0 \/ Len(toSegments) = 0
          THEN search' = [started EXCEPT !.err = "empty fromSegments or empty toSegments"]
          ELSE LET fromID == fromSegments[1].id
                   nodes == GraphNodes(LinkRowsOf(segments, segment_links, fromID), fromID)
               IN IF \E i \in DOMAIN toSegments : toSegments[i].id \notin nodes
                  THEN search' = [started EXCEPT !.err = "to segment not found in route graph"]
                  ELSE search' = [started EXCEPT !.q = <<(<<fromID>>)>>,
                                                 !.err = "searching"]
    /\ UNCHANGED <<input, segments, segment_links, loadResult, pc, req, att, invoked,
                   discovered, routeCall>>

\* one iteration of for len(q) > 0: the head of the queue is taken off and
\* either is the path (break) or is replaced by its continuations at the end
loopIteration ==
    /\ search.err = "searching"
    /\ search.q # <<>>
    /\ search.path = <<>>
    /\ LET p == Head(search.q)
           lid == p[Len(p)]
           toIDs == [i \in DOMAIN search.to |-> search.to[i].id]
           linkRows == LinkRowsOf(segments, segment_links, search.from[1].id)
           fresh == nextOf(linkRows, p)
       IN IF contains(toIDs, lid)
          THEN search' = [search EXCEPT !.q = Tail(search.q), !.path = p,
                                        !.iterations = @ + 1]
          ELSE search' = [search EXCEPT
                            !.q = Tail(search.q) \o
                                  [i \in DOMAIN fresh |-> Append(p, fresh[i])],
                            !.iterations = @ + 1]
    /\ UNCHANGED <<input, segments, segment_links, loadResult, pc, req, att, invoked,
                   discovered, routeCall>>

\* route after the loop
endRoute ==
    /\ search.err = "searching"
    /\ search.q = <<>> \/ search.path # <<>>
    /\ IF search.path = <<>>
       THEN search' = [search EXCEPT !.err = "could not find path"]
       ELSE search' = [search EXCEPT
                         !.segs = [i \in DOMAIN search.path |->
                                      SegByID(segments, search.path[i])],
                         !.err = "nil"]
    /\ UNCHANGED <<input, segments, segment_links, loadResult, pc, req, att, invoked,
                   discovered, routeCall>>

----------------------------------------------------------------------------
(* Initial state: a store created by sqliteStore.init, nothing handled *)

InitStore ==
    /\ segments = {}
    /\ segment_links = <<>>
    /\ loadResult = "not called"
    /\ pc = "idle"
    /\ req = NoRequest
    /\ att = NoAttempt
    /\ invoked = {}
    /\ discovered = {}
    /\ routeCall = NoCall
    /\ search = NoSearch

----------------------------------------------------------------------------
(* Inputs *)

RouteIDs == {1, 2}

\* the three classes of the source data and one class it does not know
Directions == {"BOTH", "FOTD", "FDTO", "NONE"}

Points == 0..MaxCoord

\* a batch whose segments differ in id, route, class and end points only
GeoBatch(ids, routes, dirs, firsts, lasts) ==
    [i \in DOMAIN ids |->
        [id |-> ids[i], name |-> <<"T">>, from |-> <<"A">>, to |-> <<"B">>,
         direction |-> dirs[i], routeID |-> routes[i],
         firstPoint |-> firsts[i], lastPoint |-> lasts[i]]]

Positional(n) == [i \in 1..n |-> i - 1]

----------------------------------------------------------------------------
(* Loading alone: one call of loadSegments on a new store *)

\* batches with ids 0..n-1, and batches that repeat one segment
InitLoad ==
    /\ \E n \in 1..LoadMaxSegs :
        \E routes \in [1..n -> RouteIDs], dirs \in [1..n -> Directions],
           firsts \in [1..n -> Points], lasts \in [1..n -> Points] :
            \/ input = GeoBatch(Positional(n), routes, dirs, firsts, lasts)
            \/ /\ n = 1
               /\ \E k \in 2..LoadMaxSegs :
                    input = [i \in 1..k |-> GeoBatch(<<0>>, routes, dirs, firsts, lasts)[1]]
    /\ InitStore

NextLoad == loadSegments(input)

SpecLoad == InitLoad /\ [][NextLoad]_vars

LinkSet == Range(segment_links)

SameRoutePairs(rows) ==
    {pair \in rows \X rows : pair[1].id # pair[2].id /\ pair[1].routeID = pair[2].routeID}

\* the directionality-pair table of the adjacency builder
TableRow(cur, next) ==
    \/ /\ cur.direction = "BOTH" /\ next.direction = "BOTH"
       /\ \E a \in {cur.firstPoint, cur.lastPoint} :
            \E b \in {next.firstPoint, next.lastPoint} : isClose(a, b)
    \/ /\ cur.direction = "BOTH" /\ next.direction = "FOTD"
       /\ \E a \in {cur.firstPoint, cur.lastPoint} : isClose(next.firstPoint, a)
    \/ /\ cur.direction = "FOTD" /\ next.direction = "FOTD"
       /\ isClose(next.firstPoint, cur.lastPoint)
    \/ /\ cur.direction = "FOTD" /\ next.direction = "BOTH"
       /\ \E b \in {next.firstPoint, next.lastPoint} : isClose(cur.lastPoint, b)

TableEdges(rows) ==
    {[id |-> pair[1].id, route_id |-> pair[1].routeID, next_id |-> pair[2].id] :
        pair \in {q \in SameRoutePairs(rows) : TableRow(q[1], q[2])}}

EnumeratedOnly(rows) ==
    /\ \A seg \in rows : seg.direction \in {"BOTH", "FOTD", "FDTO"}
    /\ \A pair \in SameRoutePairs(rows) :
          <<pair[1].direction, pair[2].direction>> \in KnownPairs

\* C1: when every loaded segment has a known class and every same-route
\* pair is one of the six enumerated pairs, the links written by
\* loadSegments are exactly the edges of the directionality-pair table, each
\* written once.
C1_LinksAreTableEdges ==
    (loadResult # "not called" /\ EnumeratedOnly(segments)) =>
        /\ LinkSet = TableEdges(segments)
        /\ Len(segment_links) = Cardinality(LinkSet)

\* a load of one-way and two-way segments of one route that wrote a link
\* and left out a pair the table rejects
C1_Witness ==
    /\ loadResult = "nil"
    /\ EnumeratedOnly(segments)
    /\ \E pair \in SameRoutePairs(segments) :
          /\ pair[1].direction = "FOTD" /\ pair[2].direction = "BOTH"
          /\ TableRow(pair[1], pair[2])
          /\ ~TableRow(pair[2], pair[1])
    /\ segment_links # <<>>

\* C2: every link joins two different segments of the route it names.
C2_LinksWithinRoute ==
    \A l \in LinkSet :
        /\ l.id # l.next_id
        /\ \E seg \in segments : seg.id = l.id /\ seg.routeID = l.route_id
        /\ \E seg \in segments : seg.id = l.next_id /\ seg.routeID = l.route_id

\* a successful load of two two-way segments that touch but lie on
\* different routes
C2_Witness ==
    /\ loadResult = "nil"
    /\ \E s1 \in segments, s2 \in segments :
          /\ s1.routeID # s2.routeID
          /\ s1.direction = "BOTH" /\ s2.direction = "BOTH"
          /\ isClose(s1.lastPoint, s2.firstPoint)

\* C3: a load is atomic: a load that returned an error left neither
\* segments nor links in the store.
C3_LoadIsAtomic ==
    loadResult \notin {"not called", "nil"} =>
        segments = {} /\ segment_links = <<>>

\* some end point of s is within the threshold of some end point of t
Touch(s, t) ==
    \E a \in {s.firstPoint, s.lastPoint} :
        \E b \in {t.firstPoint, t.lastPoint} : isClose(a, b)

Linked(s, t) ==
    \/ [id |-> s.id, route_id |-> s.routeID, next_id |-> t.id] \in LinkSet
    \/ [id |-> t.id, route_id |-> t.routeID, next_id |-> s.id] \in LinkSet

\* C14: after a successful load every two-way segment s is linked, one way
\* or the other, with every other segment of its route that has an end
\* point within the threshold of an end point of s.
C14_TouchingIsLinked ==
    loadResult = "nil" =>
        \A pair \in SameRoutePairs(segments) :
            (pair[1].direction = "BOTH" /\ Touch(pair[1], pair[2])) =>
                Linked(pair[1], pair[2])

\* C14 as the code has it: the other segment is linked with s when it is
\* two-way or first-to-last, and never when it is last-to-first.
C14_TouchingIsLinkedUnlessLastToFirst ==
    loadResult = "nil" =>
        \A pair \in SameRoutePairs(segments) :
            pair[1].direction = "BOTH" =>
                /\ (pair[2].direction \in {"BOTH", "FOTD"} /\ Touch(pair[1], pair[2])) =>
                      Linked(pair[1], pair[2])
                /\ pair[2].direction = "FDTO" => ~Linked(pair[1], pair[2])

\* a two-way segment and a first-to-last segment of its route of which only
\* the last point touches it, and a link between them
C14_Witness ==
    /\ loadResult = "nil"
    /\ \E pair \in SameRoutePairs(segments) :
          /\ pair[1].direction = "BOTH" /\ pair[2].direction = "FOTD"
          /\ ~isClose(pair[2].firstPoint, pair[1].firstPoint)
          /\ ~isClose(pair[2].firstPoint, pair[1].lastPoint)
          /\ Touch(pair[1], pair[2])
          /\ Linked(pair[1], pair[2])

\* some ordered pair of segments of the batch with different ids and the
\* same route id has a direction pair outside the six enumerated ones
UnknownPairIn(batch) ==
    \E i, j \in DOMAIN batch :
        /\ batch[i].id # batch[j].id
        /\ batch[i].routeID = batch[j].routeID
        /\ <<batch[i].direction, batch[j].direction>> \notin KnownPairs

DistinctIDs(batch) == \A i, j \in DOMAIN batch : batch[i].id = batch[j].id => i = j

C15_FailedOnPair ==
    /\ loadResult = "unknown direction pair"
    /\ \E s \in segments, t \in segments :
          /\ s.direction = "FOTD" /\ t.direction = "FDTO"
          /\ s.routeID = t.routeID

----------------------------------------------------------------------------
(* The path finder called directly on a loaded store *)

\* the stored segments named by a sequence of ids
SegsOf(ids) == [i \in DOMAIN ids |-> SegByID(segments, ids[i])]

StoredIDs == {seg.id : seg \in segments}

\* no, one or two distinct stored segments
FromChoices ==
    {SegsOf(ids) : ids \in {<<>>} \cup {<<a>> : a \in StoredIDs}
                             \cup {p \in StoredIDs \X StoredIDs : p[1] # p[2]}}

\* any set of stored segments, in id order
ToChoices == {SegsOf(SeqOfSet(S)) : S \in SUBSET StoredIDs}

\* a last-to-first segment gets no link whatever its neighbours are, so it
\* is one more segment without links, like one that lies apart
PathDirections == {"BOTH", "FOTD"}

\* batches of one route, the last segment possibly on another route
InitRoute ==
    /\ \E n \in 1..MaxSegs :
        \E lastRoute \in RouteIDs, dirs \in [1..n -> PathDirections],
           firsts \in [1..n -> Points], lasts \in [1..n -> Points] :
            input = GeoBatch(Positional(n),
                             [i \in 1..n |-> IF i = n THEN lastRoute ELSE 1],
                             dirs, firsts, lasts)
    /\ InitStore

NextRoute ==
    \/ loadSegments(input)
    \/ \E f \in FromChoices, t \in ToChoices : callRoute(f, t)

SpecRoute == InitRoute /\ [][NextRoute]_vars

\* the edges of the route of a stored segment
RouteEdges(id) ==
    {<<l.id, l.next_id>> : l \in {k \in LinkSet : k.route_id = SegByID(segments, id).routeID}}

IDSeqs(n) == UNION {[1..k -> StoredIDs] : k \in 1..n}

\* the simple paths over edges from a to a node of targets
SimplePaths(edges, a, targets) ==
    {p \in IDSeqs(Cardinality(StoredIDs)) :
        /\ p[1] = a
        /\ p[Len(p)] \in targets
        /\ \A i, j \in DOMAIN p : p[i] = p[j] => i = j
        /\ \A i \in 1..(Len(p) - 1) : <<p[i], p[i + 1]>> \in edges}

IDsOf(segs) == [i \in DOMAIN segs |-> segs[i].id]

CallPaths ==
    SimplePaths(RouteEdges(routeCall.from[1].id), routeCall.from[1].id,
                Range(IDsOf(routeCall.to)))

\* C5: a path returned by route is a simple path of the seed's route graph
\* from the first from segment to a to segment, and no such path has fewer
\* edges.
C5_PathIsShortest ==
    routeCall.err = "nil" =>
        /\ IDsOf(routeCall.segs) \in CallPaths
        /\ \A p \in CallPaths : Len(routeCall.segs) <= Len(p)

\* a returned path of one edge although a longer simple path to a to
\* segment exists
C5_Witness ==
    /\ routeCall.err = "nil"
    /\ Len(routeCall.segs) = 2
    /\ \E p \in CallPaths : Len(p) > 2

\* C6: for non-empty from and to whose to segments are all on the route of
\* the first from segment, route returns a path exactly when some to segment
\* is reachable from the first from segment.
C6_PathIffReachable ==
    (/\ routeCall.err # "not called"
     /\ routeCall.from # <<>> /\ routeCall.to # <<>>
     /\ \A i \in DOMAIN routeCall.to :
           routeCall.to[i].routeID = routeCall.from[1].routeID) =>
        (routeCall.err = "nil" <=> CallPaths # {})

\* C17: a path returned by route starts with the first from segment, ends
\* with a to segment, holds no segment twice, follows stored links of the
\* seed's route from each segment to the next, and has no to segment
\* before its last segment; the segments returned are the stored ones.
C17_PathIsValid ==
    routeCall.err = "nil" =>
        LET p == IDsOf(routeCall.segs)
            toIDs == Range(IDsOf(routeCall.to))
        IN /\ Len(p) >= 1
           /\ p[1] = routeCall.from[1].id
           /\ p[Len(p)] \in toIDs
           /\ \A i, j \in DOMAIN p : p[i] = p[j] => i = j
           /\ \A i \in 1..(Len(p) - 1) :
                 /\ <<p[i], p[i + 1]>> \in RouteEdges(routeCall.from[1].id)
                 /\ p[i] \notin toIDs
           /\ \A i \in DOMAIN p : routeCall.segs[i] \in segments

\* a returned path of three segments over links that also lead back
C17_Witness ==
    /\ routeCall.err = "nil"
    /\ Len(routeCall.segs) = 3
    /\ <<routeCall.segs[2].id, routeCall.segs[1].id>> \in RouteEdges(routeCall.from[1].id)
    /\ <<routeCall.segs[3].id, routeCall.segs[2].id>> \in RouteEdges(routeCall.from[1].id)

\* a call with the seed among several to segments, answered by the seed alone
C17_SeedIsTarget ==
    /\ routeCall.err = "nil"
    /\ Len(routeCall.to) > 1
    /\ Len(routeCall.segs) = 1
    /\ RouteEdges(routeCall.from[1].id) # {}

----------------------------------------------------------------------------
(* Requests handled on a loaded store: names, cross streets and routes vary *)

StoredNames == {<<"T">>, <<"X">>}

StoredStreets == {<<(<<"A">>), (<<"B">>)>>, <<(<<"B">>), (<<"C">>)>>}

\* a batch of two-way segments lying one after the other
TextBatch(routes, names, streets) ==
    [i \in DOMAIN routes |->
        [id |-> i - 1, name |-> names[i],
         from |-> streets[i][1], to |-> streets[i][2],
         direction |-> "BOTH", routeID |-> routes[i],
         firstPoint |-> i - 1, lastPoint |-> i - 1]]

Requests ==
    [streetName : {<<"t", Quote>>},
     from : {<<>>, <<"a">>, <<"B", Quote>>},
     to : {<<>>, <<"a">>, <<Quote, "c">>}]

\* no override file, an unreadable one, an empty one, one naming stored
\* segments and one naming no stored segment
Overrides == {Absent, Malformed, IdList(<<>>), IdList(<<2, 0>>), IdList(<<MaxSegs>>)}

Init ==
    /\ \E n \in 1..MaxSegs :
        \E routes \in [1..n -> RouteIDs], names \in [1..n -> StoredNames],
           streets \in [1..n -> StoredStreets] :
            input = TextBatch(routes, names, streets)
    /\ InitStore

Next ==
    \/ loadSegments(input)
    \/ \E r \in Requests : newRequest(r)
    \/ \E ov \in Overrides : startStage(ov)
    \/ \E ov \in Overrides : endStage(ov)
    \/ \E ov \in Overrides : routeStage(ov)

Spec == Init /\ [][Next]_vars

\* the request as the start handler sees it
preqStart == [req |-> req, startSegments |-> <<>>, endSegments |-> <<>>]

Normal(str) == upper(StripQuotes(str))

\* the stored segments that match the request's street name and from
StartMatching ==
    {seg \in segments :
        /\ seg.name = Normal(req.streetName)
        /\ req.from # <<>> => Normal(req.from) \in {seg.from, seg.to}}

\* C4: start discovery fails and returns no segment when the matching
\* segments span more than one route id, and otherwise returns all of them
\* without error.
C4_StartFailsOnSeveralRoutes ==
    "start" \in discovered =>
        LET got == startDiscovery(preqStart)
        IN IF Cardinality({seg.routeID : seg \in StartMatching}) > 1
           THEN got.err # "nil" /\ got.segs = <<>> /\ att.startSegments = <<>>
                /\ att.startErr # "nil"
           ELSE got.err = "nil" /\ Range(got.segs) = StartMatching
                /\ Len(got.segs) = Cardinality(StartMatching)
                /\ att.startSegments = got.segs

\* start discovery ran on matching segments of two routes
C4_Witness ==
    /\ "start" \in discovered
    /\ Cardinality({seg.routeID : seg \in StartMatching}) = 2
    /\ att.startSegments = <<>>

StageOrder == {{}, {"start"}, {"start", "end"}, {"start", "end", "route"}}

\* C7: the stages run in order, the end stage only after a non-empty start
\* and the route stage only after a non-empty start and end; an empty start
\* sets the three errors to "no start segments found" and an empty end sets
\* the end and route errors to "no end segments found", the later handlers
\* not being invoked and their segment lists staying empty.
C7_StagesAreSequential ==
    /\ invoked \in StageOrder
    /\ "end" \in invoked => att.startSegments # <<>>
    /\ "route" \in invoked => att.startSegments # <<>> /\ att.endSegments # <<>>
    /\ (pc = "done" /\ att.startSegments = <<>>) =>
          /\ att.startErr = "no start segments found"
          /\ att.endErr = "no start segments found"
          /\ att.routeErr = "no start segments found"
          /\ invoked = {"start"}
          /\ att.endSegments = <<>> /\ att.routeSegments = <<>>
    /\ (pc = "done" /\ att.startSegments # <<>> /\ att.endSegments = <<>>) =>
          /\ att.endErr = "no end segments found"
          /\ att.routeErr = "no end segments found"
          /\ invoked = {"start", "end"}
          /\ att.routeSegments = <<>>

\* an attempt that stopped after an empty end stage
C7_Witness ==
    /\ pc = "done"
    /\ att.startSegments # <<>>
    /\ att.endSegments = <<>>
    /\ invoked = {"start", "end"}

\* C8: when start discovery itself returned an error, handle returns that
\* error for the request.
C8_StartErrorSurfaces ==
    (pc = "done" /\ "start" \in discovered /\ startDiscovery(preqStart).err # "nil") =>
        handle.err = startDiscovery(preqStart).err

\* the stored segments on the route of the first start segment that match
\* the request's to
EndMatching ==
    {seg \in segments :
        /\ seg.routeID = att.startSegments[1].routeID
        /\ req.to # <<>> => Normal(req.to) \in {seg.from, seg.to}}

\* C11: end discovery returns, without error, exactly the segments on the
\* route of the first start segment whose from or to cross street equals
\* the quote-stripped, upper-cased to of the request (all segments of that
\* route when to is empty), each once; the result may be empty.
C11_EndIsRouteAndTo ==
    "end" \in discovered =>
        LET got == endDiscovery(preqOf)
        IN /\ got.err = "nil"
           /\ Range(got.segs) = EndMatching
           /\ Len(got.segs) = Cardinality(EndMatching)
           /\ att.endSegments = got.segs

\* end discovery with a to that a segment of another route matches too,
\* returning some but not all segments of the start segment's route
C11_Witness ==
    /\ "end" \in discovered
    /\ req.to # <<>>
    /\ att.endSegments # <<>>
    /\ \E seg \in segments :
          /\ seg.routeID # att.startSegments[1].routeID
          /\ Normal(req.to) \in {seg.from, seg.to}
    /\ \E seg \in segments :
          /\ seg.routeID = att.startSegments[1].routeID
          /\ seg \notin Range(att.endSegments)

\* an end discovery that found nothing
C11_EmptyEnd ==
    /\ "end" \in discovered
    /\ att.endSegments = <<>>
    /\ endDiscovery(preqOf).err = "nil"

\* the stored segments whose ids an override file lists
Listed(ov) == {seg \in segments : contains(ov.ids, seg.id)}

\* what a stage stored in the attempt
StageSegments(a, when) ==
    CASE when = "start" -> a.startSegments
      [] when = "end" -> a.endSegments
      [] when = "route" -> a.routeSegments

stage(when, ov) ==
    CASE when = "start" -> startStage(ov)
      [] when = "end" -> endStage(ov)
      [] when = "route" -> routeStage(ov)

Stages == {"start", "end", "route"}

\* C13: a stage run with an override file that reads as a list of ids does
\* not run its discovery function and stores exactly the stored segments
\* whose ids are in the list; a stage run without an override file runs its
\* discovery function and stores what it returned.
C13_OverrideReplacesDiscovery ==
    [][\A when \in Stages, ov \in Overrides :
          stage(when, ov) =>
              /\ ov.kind = "ids" =>
                    /\ when \notin discovered'
                    /\ Range(StageSegments(att', when)) = Listed(ov)
              /\ ov.kind = "absent" =>
                    /\ when \in discovered'
                    /\ StageSegments(att', when) = discover(when, preqOf).segs]_vars

\* C13 for override files that list at least one id
C13_NonEmptyOverride ==
    [][\A when \in Stages, ov \in Overrides :
          (stage(when, ov) /\ ov.kind = "ids" /\ ov.ids # <<>>) =>
              /\ when \notin discovered'
              /\ Range(StageSegments(att', when)) = Listed(ov)]_vars

\* a start stage that an override file replaced by some but not all of the
\* stored segments
C13_OverriddenStart ==
    /\ "start" \in invoked \ discovered
    /\ att.startSegments # <<>>
    /\ Range(att.startSegments) # segments

----------------------------------------------------------------------------
(* Requests handled on a loaded store: the geometry of one route varies and *)
(* the start and end segments are chosen by overrides                       *)

Spans == {span \in Points \X Points : span[1] <= span[2]}

InitGeo ==
    /\ \E n \in 1..MaxSegs :
        \E dirs \in [1..n -> PathDirections], spans \in [1..n -> Spans] :
            input = GeoBatch(Positional(n), [i \in 1..n |-> 1], dirs,
                             [i \in 1..n |-> spans[i][1]],
                             [i \in 1..n |-> spans[i][2]])
    /\ InitStore

\* whole street, to only, from only, from and to equal, from and to different
GeoRequests ==
    {[streetName |-> <<"t">>, from |-> ft[1], to |-> ft[2]] :
        ft \in {<<(<<>>), (<<>>)>>, <<(<<>>), (<<"b">>)>>, <<(<<"a">>), (<<>>)>>,
                <<(<<"a">>), (<<"a">>)>>, <<(<<"a">>), (<<"b">>)>>}}

\* override files naming any non-empty set of the ids 0..MaxSegs-1
GeoOverrides == {IdList(SeqOfSet(S)) : S \in SUBSET (0..(MaxSegs - 1)) \ {{}}}

NextGeo ==
    \/ loadSegments(input)
    \/ \E r \in GeoRequests : newRequest(r)
    \/ \E ov \in GeoOverrides : startStage(ov)
    \/ \E ov \in GeoOverrides : endStage(ov)
    \/ routeStage(Absent)

SpecGeo == InitGeo /\ [][NextGeo]_vars

RouteDiscovered == pc = "done" /\ "route" \in discovered

LongestWanted == req.to = <<>> \/ req.to = req.from

WholeStreet == req.from = <<>> /\ req.to = <<>>

\* the path the path finder returns for the start and end segments
FirstPath == route(att.startSegments, att.endSegments).segs

\* the seed of the searches for the single end candidates
LongestSeed ==
    IF WholeStreet THEN att.startSegments[1]
    ELSE IF req.from # <<>>
    THEN trimStart(FirstPath, startIDsOf(att.startSegments))[1]
    ELSE FirstPath[1]

\* C9: when to is empty or equal to from, no path found from the seed to a
\* single end candidate has more segments than the route returned.
C9_LongestPathReturned ==
    (RouteDiscovered /\ att.routeErr = "nil" /\ LongestWanted) =>
        \A i \in DOMAIN att.endSegments :
            LET c == route(<<LongestSeed>>, <<att.endSegments[i]>>)
            IN c.err = "nil" => Len(c.segs) <= Len(att.routeSegments)

\* a request without to whose route is longer than the first path found
C9_Witness ==
    /\ RouteDiscovered /\ att.routeErr = "nil"
    /\ req.from # <<>> /\ req.to = <<>>
    /\ Len(att.routeSegments) > Len(FirstPath)

StartIDSet == {att.startSegments[i].id : i \in DOMAIN att.startSegments}

RECURSIVE DropLeading(_)
\* drop the first segment while the path has more than two segments and the
\* second one is a start candidate
DropLeading(path) ==
    IF Len(path) > 2 /\ path[2].id \in StartIDSet
    THEN DropLeading(Tail(path))
    ELSE path

\* C10: with from given (and to given and different, so that no longest
\* path is looked for) the route is the path of the path finder with leading
\* segments dropped while it has more than two segments and its second
\* segment is a start candidate; with from empty the path is not trimmed.
C10_TrimmedToOneStart ==
    (RouteDiscovered /\ att.routeErr = "nil" /\ ~LongestWanted) =>
        att.routeSegments = IF req.from # <<>> THEN DropLeading(FirstPath) ELSE FirstPath

----------------------------------------------------------------------------
(* The loop of the path finder, iteration by iteration *)

\* calls with one from segment (route reads only the first) and any to
SearchFrom == {SegsOf(<<a>>) : a \in StoredIDs}

NextSearch ==
    \/ loadSegments(input)
    \/ \E f \in SearchFrom, t \in ToChoices : beginRoute(f, t)
    \/ loopIteration
    \/ endRoute

\* route runs to its return once called
SpecSearch == InitGeo /\ [][NextSearch]_vars /\ WF_vars(NextSearch)

\* the simple paths of the seed's route graph that start with the seed
SeedPaths ==
    SimplePaths(RouteEdges(search.from[1].id), search.from[1].id, StoredIDs)

\* the queue holds different simple paths from the seed, and the paths
\* taken off it so far and those on it are no more than there are simple
\* paths from the seed
QueueIsBounded ==
    search.err = "searching" =>
        /\ \A i \in DOMAIN search.q : search.q[i] \in SeedPaths
        /\ \A i, j \in DOMAIN search.q : search.q[i] = search.q[j] => i = j
        /\ search.iterations + Len(search.q) <= Cardinality(SeedPaths)

Searching == search.err = "searching"

Returned == search.err \in {"nil", "could not find path"}

\* C18: the loop of the path finder ends on every route graph, cycles
\* included: the candidate paths are simple paths from the seed, each
\* queued once, so the loop runs at most once for each of them, and every
\* search that entered the loop returns a path or "could not find path".
C18_SearchTerminates == []QueueIsBounded /\ (Searching ~> Returned)

\* a search from a seed on a cycle (it is linked both ways with another
\* segment) that took the seed and a continuation off the queue, rejected
\* the way back and ended without a path when the queue was empty
C18_Witness ==
    /\ search.err = "could not find path"
    /\ search.iterations >= 2
    /\ search.q = <<>>
    /\ \E b \in StoredIDs :
          /\ <<search.from[1].id, b>> \in RouteEdges(search.from[1].id)
          /\ <<b, search.from[1].id>> \in RouteEdges(search.from[1].id)

\* the result of the loop run iteration by iteration is the result of route
SearchAgrees ==
    search.err \notin {"not called", "searching"} =>
        LET got == route(search.from, search.to)
        IN search.err = got.err /\ search.segs = got.segs

----------------------------------------------------------------------------
(* The longest-path phase of route discovery *)

\* the first path after the trimming of its front
TrimmedPath ==
    IF req.from # <<>> THEN trimStart(FirstPath, startIDsOf(att.startSegments))
    ELSE FirstPath

\* route discovery reached its longest-path phase
LongestPhase ==
    /\ RouteDiscovered /\ LongestWanted /\ ~WholeStreet
    /\ route(att.startSegments, att.endSegments).err = "nil"

\* C16: in the longest-path phase the searches for the single end
\* candidates start from the first start segment of the request, so that
\* route discovery returns what the loop over the end candidates returns
\* when it is seeded with startSegments[0], also when the first path was
\* trimmed at its front.
C16_SeededFromFirstStart ==
    LongestPhase =>
        LET want == longest(att.startSegments[1], att.endSegments, TrimmedPath)
        IN att.routeSegments = want.segs /\ att.routeErr = want.err

\* the longest-path phase after a first path whose second segment is a
\* start candidate and whose first segment was trimmed, with a result that
\* differs from the one of searches seeded with startSegments[0]
C16_TrimmedThenLongest ==
    /\ LongestPhase
    /\ att.routeErr = "nil"
    /\ Len(FirstPath) > 2 /\ FirstPath[2].id \in StartIDSet
    /\ att.routeSegments[1] # att.startSegments[1]
    /\ longest(att.startSegments[1], att.endSegments, TrimmedPath).segs[1] = att.startSegments[1]

\* the search from the seed of the longest-path phase for end candidate i
CandidateSearch(i) == route(<<TrimmedPath[1]>>, <<att.endSegments[i]>>)

\* the end candidates for which that search fails
FailingCandidates ==
    {i \in DOMAIN att.endSegments : CandidateSearch(i).err # "nil"}

\* C19: in the longest-path phase route discovery returns no route and the
\* error of the first end candidate whose search from the seed fails, also
\* though the first search found a path; it returns a route only when the
\* search succeeds for every end candidate.
C19_FailingCandidateFailsAll ==
    LongestPhase =>
        IF FailingCandidates # {}
        THEN /\ att.routeSegments = <<>>
             /\ att.routeErr =
                   CandidateSearch(CHOOSE i \in FailingCandidates :
                                      \A j \in FailingCandidates : i <= j).err
             /\ handle.err = att.routeErr
        ELSE att.routeErr = "nil" /\ att.routeSegments # <<>>

\* a first search that found a path to one end candidate, and another end
\* candidate that is in the route graph but cannot be reached from the seed
C19_Witness ==
    /\ LongestPhase
    /\ Len(FirstPath) > 1
    /\ \E i \in FailingCandidates : CandidateSearch(i).err = "could not find path"
    /\ att.routeSegments = <<>>
    /\ att.routeErr = "could not find path"

\* the first search has checked every end candidate against the graph of
\* the route, which is the graph of the seed too, so in the longest-path
\* phase no search fails for a candidate absent from the graph
CandidatesInGraph ==
    LongestPhase =>
        \A i \in FailingCandidates : CandidateSearch(i).err = "could not find path"

----------------------------------------------------------------------------
(* Route discovery for entire streets *)

\* the stored segments on the route of the first start segment
StartRoute == {seg \in segments : seg.routeID = att.startSegments[1].routeID}

\* C12: for a request with neither from nor to, route discovery returns
\* without error every segment on the route of the first start segment,
\* each once, and no segment of another route, whatever the end candidates
\* are and whether or not the path finder would find a path between them.
C12_WholeStreetIsRoute ==
    (RouteDiscovered /\ WholeStreet) =>
        /\ att.routeErr = "nil"
        /\ Range(att.routeSegments) = StartRoute
        /\ Len(att.routeSegments) = Cardinality(StartRoute)

\* an entire street discovered on a store holding another route too, for
\* start and end candidates between which the path finder fails
C12_Witness ==
    /\ RouteDiscovered /\ WholeStreet
    /\ att.routeSegments # <<>>
    /\ segments \ StartRoute # {}
    /\ route(att.startSegments, att.endSegments).err # "nil"

====
